---- MODULE Spec2Model ----
(***************************************************************************)
(* Turn latency tracker of the livekit voice agent.                        *)
(*                                                                         *)
(* Two entrypoints exist: src/src/agent.py (SimpleLatencyTracker and a     *)
(* metrics handler that dispatches on the metric's type name) and          *)
(* src/src/agent_configurable.py (LatencyTracker and a handler that        *)
(* dispatches on the attributes the metric carries).  Both are modelled,   *)
(* each with its own tracker instance.  A process runs one of the two      *)
(* entrypoints (Spec); SpecRecord exercises the two tracker classes side   *)
(* by side with the same calls.                                            *)
(*                                                                         *)
(* Python values are tagged records [t, v]:                                *)
(*   t = "None"  the None object                                           *)
(*   t = "num"   a number, v its value (milliseconds once recorded)        *)
(*   t = "str"   a sequence-like object (str, list, tuple, bytes):         *)
(*               `x * 1000` succeeds and is again sequence-like,           *)
(*               f"{x:.0f}" raises, `x + <number>` raises                  *)
(*   t = "obj"   any other object (dict, ...): `x * 1000` raises           *)
(*   t = "absent" the attribute does not exist (hasattr is False)          *)
(***************************************************************************)
EXTENDS Integers, Sequences, FiniteSets, TLC

VARIABLES program,   \* the entrypoint this process runs
          simple,    \* the SimpleLatencyTracker instance of agent.py
          conf,      \* the LatencyTracker instance of agent_configurable.py
          out,       \* what the last operation logged / raised, per program
          call,      \* the last operation and its argument
          since,     \* per tracker, the add_* calls since its last completion
          threads    \* threads inside add_* of the agent.py tracker

vars == <<program, simple, conf, out, call, since, threads>>

----------------------------------------------------------------------------
(* Bounds *)

MaxTurns == 2        \* no operation is started once turn_count reached it
MaxThreadCalls == 3  \* record calls started by the threads altogether

(* Input values *)

EouMs == {120, 0}       \* arguments of add_eou (milliseconds)
LlmMs == {300, -5}      \* arguments of add_llm
TtsMs == {150, 0}       \* arguments of add_tts
\* numeric payloads of metrics events (seconds), per attribute
Seconds(f) == IF f = "end_of_utterance_delay" THEN {0, 1}
              ELSE IF f = "ttft" THEN {-1, 2} ELSE {3}

Kinds == {"eou", "llm", "tts"}

----------------------------------------------------------------------------
(* Python values *)

None == [t |-> "None", v |-> 0]
Num(x) == [t |-> "num", v |-> x]
StrVal == [t |-> "str", v |-> 0]
ObjVal == [t |-> "obj", v |-> 0]
Absent == [t |-> "absent", v |-> 0]

\* f"{x:.0f}" succeeds
Formattable(x) == x.t = "num"

\* a + b + c succeeds; with at least one number among them every
\* sequence-like operand makes one of the two additions raise TypeError
Addable(a, b, c) == a.t = "num" /\ b.t = "num" /\ c.t = "num"

\* x * 1000 succeeds
Multipliable(x) == x.t \in {"num", "str"}

\* x * 1000
Times1000(x) == IF x.t = "num" THEN Num(x.v * 1000) ELSE x

----------------------------------------------------------------------------
(* Log lines *)

Line(name, turn, ms) == [line |-> name, turn |-> turn, ms |-> ms]

\* result of a method: the object afterwards, the lines logged, and whether
\* an exception left the method
Result(t, log, raised) == [trk |-> t, log |-> log, raised |-> raised]

----------------------------------------------------------------------------
(* SimpleLatencyTracker, src/src/agent.py *)

SimpleLatencyTracker ==
    [eou_delays |-> <<>>, llm_ttfts |-> <<>>, tts_ttfbs |-> <<>>,
     turn_count |-> 0,
     current_eou |-> None, current_llm |-> None, current_tts |-> None]

\* as _check_complete_turn, the total leaving out the TTS value
_check_complete_turn_total(t) ==
    IF t.current_eou # None /\ t.current_llm # None /\ t.current_tts # None
    THEN LET t1 == [t EXCEPT !.turn_count = @ + 1]
         IN IF ~Addable(t.current_eou, t.current_llm, t.current_tts)
            THEN Result(t1, <<>>, TRUE)
            ELSE LET total == t.current_eou.v + t.current_llm.v
                     t2 == [t1 EXCEPT !.eou_delays = Append(@, t.current_eou),
                                      !.llm_ttfts = Append(@, t.current_llm),
                                      !.tts_ttfbs = Append(@, t.current_tts)]
                     t3 == [t2 EXCEPT !.current_eou = None,
                                      !.current_llm = None,
                                      !.current_tts = None]
                 IN Result(t3, <<Line("sep", 0, 0), Line("total", t1.turn_count, total)>>, FALSE)
    ELSE Result(t, <<>>, FALSE)

\* as _check_complete_turn, the series assigned instead of appended to
_check_complete_turn_assign(t) ==
    IF t.current_eou # None /\ t.current_llm # None /\ t.current_tts # None
    THEN LET t1 == [t EXCEPT !.turn_count = @ + 1]
         IN IF ~Addable(t.current_eou, t.current_llm, t.current_tts)
            THEN Result(t1, <<>>, TRUE)
            ELSE LET total == t.current_eou.v + t.current_llm.v + t.current_tts.v
                     t2 == [t1 EXCEPT !.eou_delays = <<t.current_eou>>,
                                      !.llm_ttfts = <<t.current_llm>>,
                                      !.tts_ttfbs = <<t.current_tts>>]
                     t3 == [t2 EXCEPT !.current_eou = None,
                                      !.current_llm = None,
                                      !.current_tts = None]
                 IN Result(t3, <<Line("sep", 0, 0), Line("total", t1.turn_count, total)>>, FALSE)
    ELSE Result(t, <<>>, FALSE)

\* as _check_complete_turn, turn_count incremented before the test
_check_complete_turn_count(t) ==
    LET t1 == [t EXCEPT !.turn_count = @ + 1]
    IN IF t.current_eou # None /\ t.current_llm # None /\ t.current_tts # None
       THEN IF ~Addable(t.current_eou, t.current_llm, t.current_tts)
            THEN Result(t1, <<>>, TRUE)
            ELSE LET total == t.current_eou.v + t.current_llm.v + t.current_tts.v
                     t2 == [t1 EXCEPT !.eou_delays = Append(@, t.current_eou),
                                      !.llm_ttfts = Append(@, t.current_llm),
                                      !.tts_ttfbs = Append(@, t.current_tts)]
                     t3 == [t2 EXCEPT !.current_eou = None,
                                      !.current_llm = None,
                                      !.current_tts = None]
                 IN Result(t3, <<Line("sep", 0, 0), Line("total", t1.turn_count, total)>>, FALSE)
       ELSE Result(t1, <<>>, FALSE)

_check_complete_turn(t) ==
    IF t.current_eou # None /\ t.current_llm # None /\ t.current_tts # None
    THEN LET t1 == [t EXCEPT !.turn_count = @ + 1]
         IN IF ~Addable(t.current_eou, t.current_llm, t.current_tts)
            THEN Result(t1, <<>>, TRUE)
            ELSE LET total == t.current_eou.v + t.current_llm.v + t.current_tts.v
                     t2 == [t1 EXCEPT !.eou_delays = Append(@, t.current_eou),
                                      !.llm_ttfts = Append(@, t.current_llm),
                                      !.tts_ttfbs = Append(@, t.current_tts)]
                     t3 == [t2 EXCEPT !.current_eou = None,
                                      !.current_llm = None,
                                      !.current_tts = None]
                 IN Result(t3, <<Line("sep", 0, 0), Line("total", t1.turn_count, total)>>, FALSE)
    ELSE Result(t, <<>>, FALSE)

\* as add_eou, keeping a value that is already there
add_eou_keep(t, delay_ms) ==
    LET t1 == IF t.current_eou = None THEN [t EXCEPT !.current_eou = delay_ms] ELSE t
    IN IF ~Formattable(delay_ms)
       THEN Result(t1, <<>>, TRUE)
       ELSE LET r == _check_complete_turn(t1)
            IN Result(r.trk, <<Line("eou", 0, delay_ms.v)>> \o r.log, r.raised)

add_eou(t, delay_ms) ==
    LET t1 == [t EXCEPT !.current_eou = delay_ms]
    IN IF ~Formattable(delay_ms)
       THEN Result(t1, <<>>, TRUE)
       ELSE LET r == _check_complete_turn(t1)
            IN Result(r.trk, <<Line("eou", 0, delay_ms.v)>> \o r.log, r.raised)

\* as add_llm, had a new LLM value evicted an EOU value waiting for its turn
add_llm_evict(t, ttft_ms) ==
    LET t1 == [t EXCEPT !.current_llm = ttft_ms, !.current_eou = None]
    IN IF ~Formattable(ttft_ms)
       THEN Result(t1, <<>>, TRUE)
       ELSE LET r == _check_complete_turn(t1)
            IN Result(r.trk, <<Line("llm", 0, ttft_ms.v)>> \o r.log, r.raised)

add_llm(t, ttft_ms) ==
    LET t1 == [t EXCEPT !.current_llm = ttft_ms]
    IN IF ~Formattable(ttft_ms)
       THEN Result(t1, <<>>, TRUE)
       ELSE LET r == _check_complete_turn(t1)
            IN Result(r.trk, <<Line("llm", 0, ttft_ms.v)>> \o r.log, r.raised)

\* as add_tts, without the call of _check_complete_turn
add_tts_no_check(t, ttfb_ms) ==
    LET t1 == [t EXCEPT !.current_tts = ttfb_ms]
    IN IF ~Formattable(ttfb_ms)
       THEN Result(t1, <<>>, TRUE)
       ELSE Result(t1, <<Line("tts", 0, ttfb_ms.v)>>, FALSE)

add_tts(t, ttfb_ms) ==
    LET t1 == [t EXCEPT !.current_tts = ttfb_ms]
    IN IF ~Formattable(ttfb_ms)
       THEN Result(t1, <<>>, TRUE)
       ELSE LET r == _check_complete_turn(t1)
            IN Result(r.trk, <<Line("tts", 0, ttfb_ms.v)>> \o r.log, r.raised)

----------------------------------------------------------------------------
(* LatencyTracker, src/src/agent_configurable.py *)

LatencyTracker ==
    [eou_delays |-> <<>>, llm_ttfts |-> <<>>, tts_ttfbs |-> <<>>,
     turn_count |-> 0,
     current_eou |-> None, current_llm |-> None, current_tts |-> None]

\* as LatencyTracker._check_complete_turn, current_tts not reset
LatencyTracker_check_complete_turn_no_reset(t) ==
    IF t.current_eou # None /\ t.current_llm # None /\ t.current_tts # None
    THEN LET t1 == [t EXCEPT !.turn_count = @ + 1]
         IN IF ~Addable(t.current_eou, t.current_llm, t.current_tts)
            THEN Result(t1, <<>>, TRUE)
            ELSE LET total == t.current_eou.v + t.current_llm.v + t.current_tts.v
                     t2 == [t1 EXCEPT !.eou_delays = Append(@, t.current_eou),
                                      !.llm_ttfts = Append(@, t.current_llm),
                                      !.tts_ttfbs = Append(@, t.current_tts)]
                     t3 == [t2 EXCEPT !.current_eou = None,
                                      !.current_llm = None]
                 IN Result(t3, <<Line("sep", 0, 0), Line("total", t1.turn_count, total)>>, FALSE)
    ELSE Result(t, <<>>, FALSE)

LatencyTracker_check_complete_turn(t) ==
    IF t.current_eou # None /\ t.current_llm # None /\ t.current_tts # None
    THEN LET t1 == [t EXCEPT !.turn_count = @ + 1]
         IN IF ~Addable(t.current_eou, t.current_llm, t.current_tts)
            THEN Result(t1, <<>>, TRUE)
            ELSE LET total == t.current_eou.v + t.current_llm.v + t.current_tts.v
                     t2 == [t1 EXCEPT !.eou_delays = Append(@, t.current_eou),
                                      !.llm_ttfts = Append(@, t.current_llm),
                                      !.tts_ttfbs = Append(@, t.current_tts)]
                     t3 == [t2 EXCEPT !.current_eou = None,
                                      !.current_llm = None,
                                      !.current_tts = None]
                 IN Result(t3, <<Line("sep", 0, 0), Line("total", t1.turn_count, total)>>, FALSE)
    ELSE Result(t, <<>>, FALSE)

LatencyTracker_add_eou(t, delay_ms) ==
    LET t1 == [t EXCEPT !.current_eou = delay_ms]
    IN IF ~Formattable(delay_ms)
       THEN Result(t1, <<>>, TRUE)
       ELSE LET r == LatencyTracker_check_complete_turn(t1)
            IN Result(r.trk, <<Line("eou", 0, delay_ms.v)>> \o r.log, r.raised)

LatencyTracker_add_llm(t, ttft_ms) ==
    LET t1 == [t EXCEPT !.current_llm = ttft_ms]
    IN IF ~Formattable(ttft_ms)
       THEN Result(t1, <<>>, TRUE)
       ELSE LET r == LatencyTracker_check_complete_turn(t1)
            IN Result(r.trk, <<Line("llm", 0, ttft_ms.v)>> \o r.log, r.raised)

LatencyTracker_add_tts(t, ttfb_ms) ==
    LET t1 == [t EXCEPT !.current_tts = ttfb_ms]
    IN IF ~Formattable(ttfb_ms)
       THEN Result(t1, <<>>, TRUE)
       ELSE LET r == LatencyTracker_check_complete_turn(t1)
            IN Result(r.trk, <<Line("tts", 0, ttfb_ms.v)>> \o r.log, r.raised)

----------------------------------------------------------------------------
(* Helpers of print_summary *)

RECURSIVE SeqSum(_)
SeqSum(s) == IF s = <<>> THEN 0 ELSE Head(s) + SeqSum(Tail(s))

RECURSIVE Insert(_, _)
Insert(x, s) == IF s = <<>> THEN <<x>>
                ELSE IF x <= Head(s) THEN <<x>> \o s
                ELSE <<Head(s)>> \o Insert(x, Tail(s))

\* sorted(values)
RECURSIVE sorted(_)
sorted(s) == IF s = <<>> THEN <<>> ELSE Insert(Head(s), sorted(Tail(s)))

\* the numbers held by a series
Ms(series) == [i \in 1..Len(series) |-> series[i].v]

\* [e + l + t for e, l, t in zip(eou_delays, llm_ttfts, tts_ttfbs)]
Min2(a, b) == IF a <= b THEN a ELSE b
Min3(a, b, c) == Min2(a, Min2(b, c))
\* as zip_totals, had a turn still pending been counted with the durations
\* it has so far
zip_totals_pending(t) ==
    LET done == [i \in 1..Min3(Len(t.eou_delays), Len(t.llm_ttfts), Len(t.tts_ttfbs)) |->
                    t.eou_delays[i].v + t.llm_ttfts[i].v + t.tts_ttfbs[i].v]
        ms(x) == IF x.t = "num" THEN x.v ELSE 0
    IN IF t.current_eou.t = "num" \/ t.current_llm.t = "num" \/ t.current_tts.t = "num"
       THEN Append(done, ms(t.current_eou) + ms(t.current_llm) + ms(t.current_tts))
       ELSE done

zip_totals(t) ==
    [i \in 1..Min3(Len(t.eou_delays), Len(t.llm_ttfts), Len(t.tts_ttfbs)) |->
        t.eou_delays[i].v + t.llm_ttfts[i].v + t.tts_ttfbs[i].v]

\* int(n * p) for p = pct/100; sequences are 1-based, hence the + 1 at use
\* as PctIndex, had the rank been taken over n - 1 (interpolation-style)
PctIndex_n1(n, pct) == ((n - 1) * pct) \div 100

PctIndex(n, pct) == (n * pct) \div 100

\* a mean is kept exact, as the pair sum / n
Mean(values) == [sum |-> SeqSum(values), n |-> Len(values)]

NoStats == [n |-> 0, avg |-> [sum |-> 0, n |-> 0], p50 |-> 0, p90 |-> 0,
            p99 |-> 0, min |-> 0, max |-> 0]

\* as calc_stats, had the percentiles been read from the series as recorded
\* (values[...] instead of sorted_vals[...])
calc_stats_unsorted(values) ==
    IF values = <<>> THEN NoStats
    ELSE LET sorted_vals == sorted(values)
             n == Len(sorted_vals)
         IN [n |-> n,
             avg |-> Mean(values),
             p50 |-> IF n > 0 THEN values[PctIndex(n, 50) + 1] ELSE 0,
             p90 |-> IF n > 1 THEN values[PctIndex(n, 90) + 1] ELSE values[1],
             p99 |-> IF n > 1 THEN values[PctIndex(n, 99) + 1] ELSE values[1],
             min |-> sorted_vals[1],
             max |-> sorted_vals[n]]

\* as calc_stats, had the one-sample case of p90 / p99 defaulted to 0 as the
\* empty case of p50 does
calc_stats_default(values) ==
    IF values = <<>> THEN NoStats
    ELSE LET sorted_vals == sorted(values)
             n == Len(sorted_vals)
         IN [n |-> n,
             avg |-> Mean(values),
             p50 |-> IF n > 0 THEN sorted_vals[PctIndex(n, 50) + 1] ELSE 0,
             p90 |-> IF n > 1 THEN sorted_vals[PctIndex(n, 90) + 1] ELSE 0,
             p99 |-> IF n > 1 THEN sorted_vals[PctIndex(n, 99) + 1] ELSE 0,
             min |-> sorted_vals[1],
             max |-> sorted_vals[n]]

calc_stats(values) ==
    IF values = <<>> THEN NoStats
    ELSE LET sorted_vals == sorted(values)
             n == Len(sorted_vals)
         IN [n |-> n,
             avg |-> Mean(values),
             p50 |-> IF n > 0 THEN sorted_vals[PctIndex(n, 50) + 1] ELSE 0,
             p90 |-> IF n > 1 THEN sorted_vals[PctIndex(n, 90) + 1] ELSE sorted_vals[1],
             p99 |-> IF n > 1 THEN sorted_vals[PctIndex(n, 99) + 1] ELSE sorted_vals[1],
             min |-> sorted_vals[1],
             max |-> sorted_vals[n]]

NoSummary == [status |-> "none", turns |-> 0, eou |-> NoStats, llm |-> NoStats,
              tts |-> NoStats, total |-> NoStats, total_p90 |-> 0,
              total_p99 |-> 0, verdict |-> "none"]

\* SimpleLatencyTracker.print_summary: the numbers it logs.  status is
\* "no_turns" for the early return, "raised" when totals[0] raises IndexError
print_summary(t) ==
    IF t.turn_count = 0 THEN [NoSummary EXCEPT !.status = "no_turns"]
    ELSE LET totals == zip_totals(t)
             n == Len(totals)
             s1 == [NoSummary EXCEPT !.turns = t.turn_count,
                                     !.eou = calc_stats(Ms(t.eou_delays)),
                                     !.llm = calc_stats(Ms(t.llm_ttfts)),
                                     !.tts = calc_stats(Ms(t.tts_ttfbs)),
                                     !.total = calc_stats(totals)]
         IN IF n = 0 THEN [s1 EXCEPT !.status = "raised"]
            ELSE LET total_p90 == IF n > 1 THEN sorted(totals)[PctIndex(n, 90) + 1]
                                  ELSE totals[1]
                     total_p99 == IF n > 1 THEN sorted(totals)[PctIndex(n, 99) + 1]
                                  ELSE totals[1]
                 IN [s1 EXCEPT !.status = "ok",
                               !.total_p90 = total_p90,
                               !.total_p99 = total_p99,
                               !.verdict = IF total_p90 < 500 THEN "excellent"
                                           ELSE IF total_p90 < 800 THEN "good"
                                           ELSE "needs optimization"]

\* as print_summary_self, had calc_stats sorted the series in place
\* (values.sort() on self.eou_delays) instead of sorted(values)
print_summary_self_sorting(t) ==
    [t EXCEPT !.eou_delays = [i \in 1..Len(t.eou_delays) |->
                                 Num(sorted(Ms(t.eou_delays))[i])]]

\* the tracker after print_summary: the method reads turn_count and the three
\* series, sorts copies (sorted(...)) and assigns no attribute of self; the
\* same holds for LatencyTracker.print_summary
print_summary_self(t) == t

NoLatencySummary == [status |-> "none", turns |-> 0,
                     avg_eou |-> [sum |-> 0, n |-> 0],
                     avg_llm |-> [sum |-> 0, n |-> 0],
                     avg_tts |-> [sum |-> 0, n |-> 0],
                     avg_total |-> [sum |-> 0, n |-> 0],
                     p90 |-> 0, min |-> 0, max |-> 0]

\* as LatencyTracker_print_summary, had p90_idx been int((len - 1) * 0.90)
LatencyTracker_print_summary_n1(t) ==
    IF t.turn_count = 0 THEN [NoLatencySummary EXCEPT !.status = "no_turns"]
    ELSE LET totals == zip_totals(t)
         IN IF Len(totals) = 0 THEN [NoLatencySummary EXCEPT !.status = "raised"]
            ELSE LET sorted_totals == sorted(totals)
                     p90_idx == PctIndex(Len(sorted_totals) - 1, 90)
                     p90 == IF p90_idx < Len(sorted_totals)
                            THEN sorted_totals[p90_idx + 1]
                            ELSE sorted_totals[Len(sorted_totals)]
                 IN [status |-> "ok", turns |-> t.turn_count,
                     avg_eou |-> Mean(Ms(t.eou_delays)),
                     avg_llm |-> Mean(Ms(t.llm_ttfts)),
                     avg_tts |-> Mean(Ms(t.tts_ttfbs)),
                     avg_total |-> Mean(totals),
                     p90 |-> p90,
                     min |-> sorted_totals[1],
                     max |-> sorted_totals[Len(sorted_totals)]]

\* LatencyTracker.print_summary: status is "raised" when sum(totals) /
\* len(totals) raises ZeroDivisionError
LatencyTracker_print_summary(t) ==
    IF t.turn_count = 0 THEN [NoLatencySummary EXCEPT !.status = "no_turns"]
    ELSE LET totals == zip_totals(t)
         IN IF Len(totals) = 0 THEN [NoLatencySummary EXCEPT !.status = "raised"]
            ELSE LET sorted_totals == sorted(totals)
                     p90_idx == PctIndex(Len(sorted_totals), 90)
                     p90 == IF p90_idx < Len(sorted_totals)
                            THEN sorted_totals[p90_idx + 1]
                            ELSE sorted_totals[Len(sorted_totals)]
                 IN [status |-> "ok", turns |-> t.turn_count,
                     avg_eou |-> Mean(Ms(t.eou_delays)),
                     avg_llm |-> Mean(Ms(t.llm_ttfts)),
                     avg_tts |-> Mean(Ms(t.tts_ttfbs)),
                     avg_total |-> Mean(totals),
                     p90 |-> p90,
                     min |-> sorted_totals[1],
                     max |-> sorted_totals[Len(sorted_totals)]]

\* the verdict lines of a summary.  SimpleLatencyTracker.print_summary logs
\* one of three from an if / elif / else; LatencyTracker.print_summary logs
\* averages, P90, min and max and has no verdict line
Verdicts(s) == IF s.status = "ok" THEN {s.verdict} ELSE {}
LatencyTracker_Verdicts(s) == {}

----------------------------------------------------------------------------
(* Metrics events and the two handlers *)

Types == {"EOUMetrics", "LLMMetrics", "TTSMetrics", "RealtimeModelMetrics"}

Fields == {"end_of_utterance_delay", "ttft", "ttfb"}

\* a duration attribute: missing, None, a number of seconds, or not a number
Payloads(f) == {Absent, None, StrVal, ObjVal} \cup {Num(s) : s \in Seconds(f)}

\* the payload of an attribute of an event that carries several
Usual(f) == Num(CHOOSE s \in Seconds(f) : s > 0)

\* the attribute a metric of the SDK carries: EOUMetrics has
\* end_of_utterance_delay, LLMMetrics and RealtimeModelMetrics have ttft,
\* TTSMetrics has ttfb
OwnField(type) == IF type = "EOUMetrics" THEN "end_of_utterance_delay"
                  ELSE IF type = "TTSMetrics" THEN "ttfb" ELSE "ttft"

\* the events delivered: a type name and the three attributes the handlers
\* look at; either only the type's own attribute exists (with any payload),
\* or several attributes exist and hold numbers
Events ==
    {e \in [type : Types,
            end_of_utterance_delay : Payloads("end_of_utterance_delay"),
            ttft : Payloads("ttft"), ttfb : Payloads("ttfb")] :
        \/ \A f \in Fields \ {OwnField(e.type)} : e[f] = Absent
        \/ \A f \in Fields : e[f] \in {Absent, Usual(f)}}

NoEvent == [type |-> "none", end_of_utterance_delay |-> Absent,
            ttft |-> Absent, ttfb |-> Absent]

\* hasattr(m, f) and m.f is not None
\* as Present, had the handlers tested the duration for truth (`and m.ttft`)
Present_truthy(x) == x # Absent /\ x # None /\ x # Num(0)

Present(x) == x # Absent /\ x # None

\* as Handled, without the try / except around the handler's body
Handled_uncaught(r, caught) == [trk |-> r.trk, log |-> r.log, raised |-> r.raised, caught |-> FALSE]

\* result of a handler: exceptions never leave it; caught tells that the
\* except clause ran
Handled(r, caught) == [trk |-> r.trk, log |-> r.log, raised |-> FALSE, caught |-> caught]

\* as _on_metrics_collected, ttft passed on without the None test and the conversion
_on_metrics_collected_unguarded(t, m) ==
    IF m.type = "EOUMetrics"
    THEN IF Present(m.end_of_utterance_delay)
         THEN IF ~Multipliable(m.end_of_utterance_delay)
              THEN Handled(Result(t, <<>>, TRUE), TRUE)
              ELSE LET r == add_eou(t, Times1000(m.end_of_utterance_delay))
                   IN Handled(r, r.raised)
         ELSE Handled(Result(t, <<>>, FALSE), FALSE)
    ELSE IF m.type = "LLMMetrics"
    THEN IF m.ttft # Absent
         THEN LET r == add_llm(t, m.ttft)
              IN Handled(r, r.raised)
         ELSE Handled(Result(t, <<>>, FALSE), FALSE)
    ELSE IF m.type = "TTSMetrics"
    THEN IF Present(m.ttfb)
         THEN IF ~Multipliable(m.ttfb)
              THEN Handled(Result(t, <<>>, TRUE), TRUE)
              ELSE LET r == add_tts(t, Times1000(m.ttfb))
                   IN Handled(r, r.raised)
         ELSE Handled(Result(t, <<>>, FALSE), FALSE)
    ELSE Handled(Result(t, <<>>, FALSE), FALSE)

\* agent.py: dispatch on type(m).__name__.  metrics.log_metrics and
\* usage_collector.collect, called before the try, belong to the SDK and do
\* not touch the tracker
_on_metrics_collected(t, m) ==
    IF m.type = "EOUMetrics"
    THEN IF Present(m.end_of_utterance_delay)
         THEN IF ~Multipliable(m.end_of_utterance_delay)
              THEN Handled(Result(t, <<>>, TRUE), TRUE)
              ELSE LET r == add_eou(t, Times1000(m.end_of_utterance_delay))
                   IN Handled(r, r.raised)
         ELSE Handled(Result(t, <<>>, FALSE), FALSE)
    ELSE IF m.type = "LLMMetrics"
    THEN IF Present(m.ttft)
         THEN IF ~Multipliable(m.ttft)
              THEN Handled(Result(t, <<>>, TRUE), TRUE)
              ELSE LET r == add_llm(t, Times1000(m.ttft))
                   IN Handled(r, r.raised)
         ELSE Handled(Result(t, <<>>, FALSE), FALSE)
    ELSE IF m.type = "TTSMetrics"
    THEN IF Present(m.ttfb)
         THEN IF ~Multipliable(m.ttfb)
              THEN Handled(Result(t, <<>>, TRUE), TRUE)
              ELSE LET r == add_tts(t, Times1000(m.ttfb))
                   IN Handled(r, r.raised)
         ELSE Handled(Result(t, <<>>, FALSE), FALSE)
    ELSE Handled(Result(t, <<>>, FALSE), FALSE)

\* agent_configurable.py: three consecutive ifs on the attributes inside one
\* try; an exception skips the ifs that follow
LatencyTracker_on_metrics_collected(t, m) ==
    LET r0 == Result(t, <<>>, FALSE)
        r1 == IF Present(m.end_of_utterance_delay)
              THEN IF ~Multipliable(m.end_of_utterance_delay)
                   THEN Result(t, <<>>, TRUE)
                   ELSE LatencyTracker_add_eou(t, Times1000(m.end_of_utterance_delay))
              ELSE r0
        r2 == IF ~r1.raised /\ Present(m.ttft)
              THEN IF ~Multipliable(m.ttft)
                   THEN Result(r1.trk, r1.log, TRUE)
                   ELSE LET r == LatencyTracker_add_llm(r1.trk, Times1000(m.ttft))
                        IN Result(r.trk, r1.log \o r.log, r.raised)
              ELSE r1
        r3 == IF ~r2.raised /\ Present(m.ttfb)
              THEN IF ~Multipliable(m.ttfb)
                   THEN Result(r2.trk, r2.log, TRUE)
                   ELSE LET r == LatencyTracker_add_tts(r2.trk, Times1000(m.ttfb))
                        IN Result(r.trk, r2.log \o r.log, r.raised)
              ELSE r2
    IN Handled(r3, r3.raised)

----------------------------------------------------------------------------
(* State *)

\* what an operation left behind for the observer
Out(r, summary) == [log |-> r.log, raised |-> r.raised, caught |-> r.caught,
                    summary |-> summary]
Direct(r) == [trk |-> r.trk, log |-> r.log, raised |-> r.raised, caught |-> FALSE]
Quiet(t) == [trk |-> t, log |-> <<>>, raised |-> FALSE, caught |-> FALSE]

Call(op, kind, val, ev) == [op |-> op, kind |-> kind, val |-> val, ev |-> ev]

\* per kind, the number of add_* calls (capped at 2) and the last argument
NoCalls == [k \in Kinds |-> [n |-> 0, v |-> None]]

\* cur: the calls since the tracker's history last grew (or construction);
\* done: the calls that went into the turn the last add_* call completed
NoneSince == [cur |-> NoCalls, done |-> NoCalls]

\* a thread: where it is in add_*, its arguments, the turn_count it loaded,
\* and how many calls it has started
Idle == [pc |-> "idle", kind |-> "none", val |-> None, tc |-> 0, calls |-> 0]
Threads == {1, 2}

Programs == {"agent", "agent_configurable"}

Fresh ==
    /\ simple = SimpleLatencyTracker
    /\ conf = LatencyTracker
    /\ out = [simple |-> Out(Quiet(simple), NoSummary),
              conf |-> Out(Quiet(conf), NoLatencySummary)]
    /\ call = Call("init", "none", None, NoEvent)
    /\ since = [simple |-> NoneSince, conf |-> NoneSince]
    /\ threads = [i \in Threads |-> Idle]

\* python agent.py, or python agent_configurable.py
Init == program \in Programs /\ Fresh

\* the two tracker classes instantiated without a session
InitRecord == program = "trackers" /\ Fresh

Running == simple.turn_count < MaxTurns /\ conf.turn_count < MaxTurns
NoThreads == \A i \in Threads : threads[i].pc = "idle"

Counted(c, kind, val) ==
    [c EXCEPT ![kind] = [n |-> IF @.n < 2 THEN @.n + 1 ELSE 2, v |-> val]]

\* the observer's bookkeeping of one add_* call that took a tracker from
\* `before` to `after`
Since(s, before, after, kind, val) ==
    IF Len(after.eou_delays) > Len(before.eou_delays)
    THEN [cur |-> NoCalls, done |-> Counted(s.cur, kind, val)]
    ELSE [cur |-> Counted(s.cur, kind, val), done |-> NoCalls]

Record(kind, val, rs, rc) ==
    /\ Running /\ NoThreads
    /\ simple' = rs.trk
    /\ conf' = rc.trk
    /\ out' = [simple |-> Out(Direct(rs), NoSummary),
               conf |-> Out(Direct(rc), NoLatencySummary)]
    /\ call' = Call("add_" \o kind, kind, val, NoEvent)
    /\ since' = [simple |-> Since(since.simple, simple, rs.trk, kind, val),
                 conf |-> Since(since.conf, conf, rc.trk, kind, val)]
    /\ UNCHANGED <<program, threads>>

\* tracker.add_eou(v), on both trackers
AddEou == \E v \in EouMs :
    Record("eou", Num(v), add_eou(simple, Num(v)), LatencyTracker_add_eou(conf, Num(v)))

AddLlm == \E v \in LlmMs :
    Record("llm", Num(v), add_llm(simple, Num(v)), LatencyTracker_add_llm(conf, Num(v)))

AddTts == \E v \in TtsMs :
    Record("tts", Num(v), add_tts(simple, Num(v)), LatencyTracker_add_tts(conf, Num(v)))

\* the session emits "metrics_collected": the program's handler runs
MetricsCollected == \E ev \in Events :
    /\ Running /\ NoThreads
    /\ LET rs == IF program = "agent" THEN _on_metrics_collected(simple, ev)
                 ELSE Quiet(simple)
           rc == IF program = "agent_configurable"
                 THEN LatencyTracker_on_metrics_collected(conf, ev)
                 ELSE Quiet(conf)
       IN /\ simple' = rs.trk
          /\ conf' = rc.trk
          /\ out' = [simple |-> Out(rs, NoSummary),
                     conf |-> Out(rc, NoLatencySummary)]
    /\ call' = Call("metrics", "none", None, ev)
    /\ UNCHANGED <<program, since, threads>>

\* the shutdown callback (log_usage / log_summary) calls print_summary
PrintSummary ==
    /\ NoThreads
    /\ out' = [simple |-> Out(Quiet(simple), IF program = "agent_configurable"
                                             THEN NoSummary
                                             ELSE print_summary(simple)),
               conf |-> Out(Quiet(conf), IF program = "agent"
                                         THEN NoLatencySummary
                                         ELSE LatencyTracker_print_summary(conf))]
    /\ simple' = IF program = "agent_configurable" THEN simple
                 ELSE print_summary_self(simple)
    /\ conf' = IF program = "agent" THEN conf ELSE print_summary_self(conf)
    /\ call' = Call("print_summary", "none", None, NoEvent)
    /\ UNCHANGED <<program, since, threads>>

\* the programs: metrics events and the summary
Next == MetricsCollected \/ PrintSummary
Spec == Init /\ [][Next]_vars

\* the tracker classes on their own: add_* called with numbers
NextRecord == AddEou \/ AddLlm \/ AddTts \/ PrintSummary
SpecRecord == InitRecord /\ [][NextRecord]_vars

----------------------------------------------------------------------------
(* print_summary applied to trackers that hold completed turns.  A history *)
(* holds the turns that add_* calls completed on a fresh tracker.          *)

MaxLen == 3

\* (eou, llm, tts) of a turn, in ms; the totals are 499, 500, 799 and 800
Turns == {<<300, 100, 99>>, <<100, 250, 150>>, <<200, 400, 199>>, <<0, 600, 200>>}

\* n turns with totals 100, 200, ..., 100 * n, completed in a shuffled order
Ramp(n) == [i \in 1..n |-> LET k == ((i * 7) % n) + 1 IN <<10 * k, 60 * k, 30 * k>>]

Histories == UNION {[1..n -> Turns] : n \in 1..MaxLen} \cup {Ramp(10), Ramp(11)}

\* the tracker `fresh` after the turns were completed one after the other:
\* each completion appends the turn's three values, adds 1 to turn_count and
\* leaves the three slots None
Completed(fresh, turns) ==
    [fresh EXCEPT !.eou_delays = [i \in 1..Len(turns) |-> Num(turns[i][1])],
                  !.llm_ttfts = [i \in 1..Len(turns) |-> Num(turns[i][2])],
                  !.tts_ttfbs = [i \in 1..Len(turns) |-> Num(turns[i][3])],
                  !.turn_count = Len(turns)]

InitSummary ==
    /\ program = "trackers"
    /\ \E h \in Histories : /\ simple = Completed(SimpleLatencyTracker, h)
                           /\ conf = Completed(LatencyTracker, h)
    /\ out = [simple |-> Out(Quiet(simple), NoSummary),
              conf |-> Out(Quiet(conf), NoLatencySummary)]
    /\ call = Call("init", "none", None, NoEvent)
    /\ since = [simple |-> NoneSince, conf |-> NoneSince]
    /\ threads = [i \in Threads |-> Idle]

NextSummary == PrintSummary
SpecSummary == InitSummary /\ [][NextSummary]_vars

----------------------------------------------------------------------------
(* add_* of the agent.py tracker called from several threads.  The classes *)
(* take no lock; a thread may be preempted between any two statements, and *)
(* between the load and the store of `self.turn_count += 1`.  An exception *)
(* ends the call (the handler's except clause swallows it).                *)

Started == threads[1].calls + threads[2].calls

Slot(t, k) == IF k = "eou" THEN t.current_eou
              ELSE IF k = "llm" THEN t.current_llm ELSE t.current_tts

SetSlot(t, k, v) == IF k = "eou" THEN [t EXCEPT !.current_eou = v]
                    ELSE IF k = "llm" THEN [t EXCEPT !.current_llm = v]
                    ELSE [t EXCEPT !.current_tts = v]

ThreadStep(i, th, t) ==
    /\ threads' = [threads EXCEPT ![i] = th]
    /\ simple' = t
    /\ UNCHANGED <<program, conf, out, call, since>>

At(i, pc) == threads[i].pc = pc
Goto(i, pc) == [threads[i] EXCEPT !.pc = pc]

\* a handler thread enters add_eou / add_llm / add_tts
ThreadCall(i) == \E k \in Kinds : \E v \in (IF k = "eou" THEN EouMs ELSE IF k = "llm" THEN LlmMs ELSE TtsMs) :
    /\ At(i, "idle") /\ Started < MaxThreadCalls
    /\ ThreadStep(i, [threads[i] EXCEPT !.pc = "store", !.kind = k, !.val = Num(v),
                                        !.calls = @ + 1], simple)

\* self.current_x = value (and the log line)
ThreadStore(i) ==
    /\ At(i, "store")
    /\ ThreadStep(i, Goto(i, "check"), SetSlot(simple, threads[i].kind, threads[i].val))

\* if self.current_eou is not None and ... :
ThreadCheck(i) ==
    /\ At(i, "check")
    /\ ThreadStep(i, IF \A k \in Kinds : Slot(simple, k) # None
                     THEN Goto(i, "load") ELSE Goto(i, "idle"), simple)

\* self.turn_count += 1, the load
ThreadLoad(i) ==
    /\ At(i, "load")
    /\ ThreadStep(i, [threads[i] EXCEPT !.pc = "inc", !.tc = simple.turn_count], simple)

\* self.turn_count += 1, the store
ThreadInc(i) ==
    /\ At(i, "inc")
    /\ ThreadStep(i, Goto(i, "total"), [simple EXCEPT !.turn_count = threads[i].tc + 1])

\* total = self.current_eou + self.current_llm + self.current_tts
ThreadTotal(i) ==
    /\ At(i, "total")
    /\ ThreadStep(i, IF Addable(simple.current_eou, simple.current_llm, simple.current_tts)
                     THEN Goto(i, "append_eou") ELSE Goto(i, "idle"), simple)

\* self.eou_delays.append(self.current_eou)
ThreadAppendEou(i) ==
    /\ At(i, "append_eou")
    /\ ThreadStep(i, Goto(i, "append_llm"),
                  [simple EXCEPT !.eou_delays = Append(@, simple.current_eou)])

\* self.llm_ttfts.append(self.current_llm)
ThreadAppendLlm(i) ==
    /\ At(i, "append_llm")
    /\ ThreadStep(i, Goto(i, "append_tts"),
                  [simple EXCEPT !.llm_ttfts = Append(@, simple.current_llm)])

\* self.tts_ttfbs.append(self.current_tts) (and the two log lines)
ThreadAppendTts(i) ==
    /\ At(i, "append_tts")
    /\ ThreadStep(i, Goto(i, "reset_eou"),
                  [simple EXCEPT !.tts_ttfbs = Append(@, simple.current_tts)])

\* self.current_eou = None
ThreadResetEou(i) ==
    /\ At(i, "reset_eou")
    /\ ThreadStep(i, Goto(i, "reset_llm"), [simple EXCEPT !.current_eou = None])

\* self.current_llm = None
ThreadResetLlm(i) ==
    /\ At(i, "reset_llm")
    /\ ThreadStep(i, Goto(i, "reset_tts"), [simple EXCEPT !.current_llm = None])

\* self.current_tts = None, and the call returns
ThreadResetTts(i) ==
    /\ At(i, "reset_tts")
    /\ ThreadStep(i, Goto(i, "idle"), [simple EXCEPT !.current_tts = None])

InitThreads == program = "agent" /\ Fresh

NextThreads == \E i \in Threads :
    \/ ThreadCall(i) \/ ThreadStore(i) \/ ThreadCheck(i) \/ ThreadLoad(i)
    \/ ThreadInc(i) \/ ThreadTotal(i) \/ ThreadAppendEou(i) \/ ThreadAppendLlm(i)
    \/ ThreadAppendTts(i) \/ ThreadResetEou(i) \/ ThreadResetLlm(i)
    \/ ThreadResetTts(i)

SpecThreads == InitThreads /\ [][NextThreads]_vars

----------------------------------------------------------------------------
(* Vocabulary of the properties *)

IsRecord(c) == c.op \in {"add_eou", "add_llm", "add_tts"}

Series(t) == <<t.eou_delays, t.llm_ttfts, t.tts_ttfbs>>

\* tracker b has one more entry than tracker a in each series
GrewBy1(a, b) == \A i \in 1..3 : Len(Series(b)[i]) = Len(Series(a)[i]) + 1
SameHistory(a, b) == Series(b) = Series(a)

TotalLines(log) == {i \in 1..Len(log) : log[i].line = "total"}

\* the kinds supplied once kind k is added to the calls c
KindsWith(c, k) == {j \in Kinds : c[j].n > 0} \cup {k}

\* the value of kind j once the call (k, v) is added to the calls c
ValueWith(c, k, v, j) == IF j = k THEN v ELSE c[j].v

----------------------------------------------------------------------------
(* C1: a record call produces a completed turn if and only if it supplies  *)
(* the third distinct kind since the last completion (or construction);    *)
(* calls that supplied one or two distinct kinds never produce one.        *)

C1_On(a, b, c, k, log) ==
    IF KindsWith(c, k) = Kinds
    THEN GrewBy1(a, b) /\ TotalLines(log) # {}
    ELSE SameHistory(a, b) /\ TotalLines(log) = {}

C1_ThirdKindCompletes ==
    [][IsRecord(call') =>
          /\ C1_On(simple, simple', since.simple.cur, call'.kind, out'.simple.log)
          /\ C1_On(conf, conf', since.conf.cur, call'.kind, out'.conf.log)]_vars

\* the second turn completes on an add_llm call, after kinds were repeated
C1_Witness ==
    /\ call.op = "add_llm"
    /\ Len(simple.eou_delays) = 2 /\ Len(conf.eou_delays) = 2
    /\ since.simple.done["eou"].n = 2 /\ since.conf.done["tts"].n = 2
    /\ TotalLines(out.simple.log) # {}

----------------------------------------------------------------------------
(* C2: from an empty pending turn, one call of each of the three kinds, in *)
(* any order, grows the history and the turn count by exactly 1, and the   *)
(* new entry's total is the sum of the three supplied values.              *)

C2_On(a, b, c, k, v, log) ==
    LET sum == ValueWith(c, k, v, "eou").v + ValueWith(c, k, v, "llm").v
                 + ValueWith(c, k, v, "tts").v
        n == Len(b.eou_delays)
    IN IF c[k].n = 0 /\ \A j \in Kinds \ {k} : c[j].n = 1
       THEN \* the third call
            /\ GrewBy1(a, b)
            /\ b.turn_count = a.turn_count + 1
            /\ zip_totals(b)[n] = sum
            /\ \E i \in 1..Len(log) : log[i] = Line("total", b.turn_count, sum)
            /\ Cardinality(TotalLines(log)) = 1
       ELSE IF c[k].n = 0 /\ \A j \in Kinds \ {k} : c[j].n <= 1
       THEN \* the first or the second call
            SameHistory(a, b) /\ b.turn_count = a.turn_count
       ELSE TRUE

C2_OneOfEachCompletesOnce ==
    [][IsRecord(call') =>
          /\ C2_On(simple, simple', since.simple.cur, call'.kind, call'.val, out'.simple.log)
          /\ C2_On(conf, conf', since.conf.cur, call'.kind, call'.val, out'.conf.log)]_vars

\* EOU=120, LLM=300, TTS=150 given as TTS, LLM, EOU: one turn, total 570, index 1
C2_Witness ==
    /\ call.op = "add_eou"
    /\ \A j \in Kinds : since.simple.done[j].n = 1 /\ since.conf.done[j].n = 1
    /\ Series(simple) = <<<<Num(120)>>, <<Num(300)>>, <<Num(150)>>>>
    /\ Series(conf) = Series(simple)
    /\ simple.turn_count = 1 /\ conf.turn_count = 1
    /\ out.simple.log = <<Line("eou", 0, 120), Line("sep", 0, 0), Line("total", 1, 570)>>

----------------------------------------------------------------------------
(* C3: a kind recorded again before the turn completes overwrites the      *)
(* earlier value: the completed turn holds, for each kind, the last value  *)
(* recorded since the previous completion, and the total is their sum.     *)

C3_On(a, b, c, k, v, log) ==
    IF GrewBy1(a, b)
    THEN LET n == Len(b.eou_delays)
             e == ValueWith(c, k, v, "eou")
             l == ValueWith(c, k, v, "llm")
             t == ValueWith(c, k, v, "tts")
         IN /\ b.eou_delays[n] = e /\ b.llm_ttfts[n] = l /\ b.tts_ttfbs[n] = t
            /\ zip_totals(b)[n] = e.v + l.v + t.v
            /\ \A i \in TotalLines(log) : log[i].ms = e.v + l.v + t.v
    ELSE /\ Slot(b, k) = v
         /\ \A j \in Kinds \ {k} : Slot(b, j) = Slot(a, j)

C3_LastWriteWins ==
    [][IsRecord(call') =>
          /\ C3_On(simple, simple', since.simple.cur, call'.kind, call'.val, out'.simple.log)
          /\ C3_On(conf, conf', since.conf.cur, call'.kind, call'.val, out'.conf.log)]_vars

\* add_eou(120), add_eou(0) and then the other two kinds: the turn holds 0
C3_Witness ==
    /\ IsRecord(call) /\ call.kind # "eou"
    /\ since.simple.done["eou"].n = 2 /\ since.conf.done["eou"].n = 2
    /\ since.simple.done["llm"].n = 1 /\ since.simple.done["tts"].n = 1
    /\ simple.eou_delays = <<Num(0)>> /\ conf.eou_delays = <<Num(0)>>
    /\ \E i \in TotalLines(out.simple.log) : out.simple.log[i].ms = 145

----------------------------------------------------------------------------
(* C5: the pending turn is reset exactly when a turn completes: after a    *)
(* record call the three slots are never all filled, the completing call   *)
(* leaves all three absent, and a call that completes no turn clears none. *)

C5_On(a, b, k) ==
    /\ ~(\A j \in Kinds : Slot(b, j) # None)
    /\ IF GrewBy1(a, b)
       THEN \A j \in Kinds : Slot(b, j) = None
       ELSE /\ SameHistory(a, b)
            /\ Slot(b, k) # None
            /\ \A j \in Kinds \ {k} : Slot(b, j) = Slot(a, j)

C5_ResetOnlyOnCompletion ==
    [][/\ IsRecord(call') => C5_On(simple, simple', call'.kind) /\ C5_On(conf, conf', call'.kind)
       /\ ~IsRecord(call') => \A j \in Kinds : /\ Slot(simple', j) = Slot(simple, j)
                                              /\ Slot(conf', j) = Slot(conf, j)]_vars

\* a call filled the third slot: the turn is in the history, the slots are absent
C5_Witness ==
    /\ IsRecord(call)
    /\ since.simple.done # NoCalls /\ since.conf.done # NoCalls
    /\ Len(simple.eou_delays) = 1 /\ Len(conf.eou_delays) = 1
    /\ \A j \in Kinds : Slot(simple, j) = None /\ Slot(conf, j) = None

----------------------------------------------------------------------------
(* C6: the history is append-only: a step leaves the three series as they  *)
(* are or appends one entry to the end of each; no entry is ever changed,  *)
(* moved or removed, by a record call or by the summary.                   *)

IsPrefix(s, t) == Len(s) <= Len(t) /\ \A i \in 1..Len(s) : t[i] = s[i]

C6_On(a, b) ==
    /\ \A i \in 1..3 : IsPrefix(Series(a)[i], Series(b)[i])
    /\ SameHistory(a, b) \/ GrewBy1(a, b)

C6_AppendOnly ==
    [][/\ C6_On(simple, simple') /\ C6_On(conf, conf')
       /\ ~IsRecord(call') => SameHistory(simple, simple') /\ SameHistory(conf, conf')]_vars

\* a second, different turn was appended behind the first
C6_Witness ==
    /\ IsRecord(call)
    /\ Series(simple) = <<<<Num(120), Num(0)>>, <<Num(300), Num(-5)>>, <<Num(150), Num(0)>>>>
    /\ Series(conf) = Series(simple)

----------------------------------------------------------------------------
(* C7: turn indices are 1-based and grow by one per completion: the k-th   *)
(* completed turn gets index k, the counter moves only when a turn         *)
(* completes, and it never decreases or skips a value.                     *)

C7_On(a, b, log) ==
    IF GrewBy1(a, b)
    THEN /\ b.turn_count = a.turn_count + 1
         /\ TotalLines(log) # {}
         /\ \A i \in TotalLines(log) : log[i].turn = Len(b.eou_delays)
    ELSE b.turn_count = a.turn_count /\ TotalLines(log) = {}

C7_TurnIndex ==
    [][C7_On(simple, simple', out'.simple.log) /\ C7_On(conf, conf', out'.conf.log)]_vars

\* the second completed turn is logged as turn 2
C7_Witness ==
    /\ IsRecord(call)
    /\ Len(simple.eou_delays) = 2 /\ simple.turn_count = 2
    /\ Len(conf.eou_delays) = 2 /\ conf.turn_count = 2
    /\ \E i \in TotalLines(out.simple.log) : out.simple.log[i].turn = 2
    /\ \E i \in TotalLines(out.conf.log) : out.conf.log[i].turn = 2

----------------------------------------------------------------------------
(* C4: in every reachable state, malformed events included, the three      *)
(* series have the same length and that length equals turn_count.          *)

C4_On(t) ==
    /\ Len(t.eou_delays) = t.turn_count
    /\ Len(t.llm_ttfts) = t.turn_count
    /\ Len(t.tts_ttfbs) = t.turn_count

C4_HistoryLengthIsTurnCount == C4_On(simple) /\ C4_On(conf)

----------------------------------------------------------------------------
(* C8: with record calls delivered from several threads, every filled      *)
(* triple yields exactly one completed turn and the history length equals  *)
(* the turn count, the calls being serialized by a lock of the tracker.    *)

C8_SerializedRecord ==
    NoThreads =>
        /\ C4_On(simple)
        /\ 3 * Len(simple.eou_delays) <= Started
        /\ \A i \in 1..3 : \A n \in 1..Len(Series(simple)[i]) : Series(simple)[i][n] # None

----------------------------------------------------------------------------
(* C9: a metrics event of a recognized kind whose duration is None or      *)
(* missing is ignored: pending slots, history and turn count stay as they  *)
(* are, no turn completes and no line is logged for that kind.             *)

IsMetrics(c) == c.op = "metrics"
Recognized == {"EOUMetrics", "LLMMetrics", "TTSMetrics"}
Null(x) == x = None \/ x = Absent
FieldOf(k) == IF k = "eou" THEN "end_of_utterance_delay"
              ELSE IF k = "llm" THEN "ttft" ELSE "ttfb"
KindLines(log, k) == {i \in 1..Len(log) : log[i].line = k}

\* agent.py decides the kind by the type name
C9_Agent(ev) ==
    (ev.type \in Recognized /\ Null(ev[OwnField(ev.type)])) =>
        simple' = simple /\ out'.simple.log = <<>>

\* agent_configurable.py decides the kind by the attribute
C9_Configurable(ev) ==
    /\ \A k \in Kinds : Null(ev[FieldOf(k)]) =>
          /\ KindLines(out'.conf.log, k) = {}
          /\ Slot(conf', k) = Slot(conf, k) \/ (GrewBy1(conf, conf') /\ Slot(conf', k) = None)
    /\ (\A k \in Kinds : Null(ev[FieldOf(k)])) =>
          conf' = conf /\ out'.conf.log = <<>>

C9_NullDurationIgnored ==
    [][IsMetrics(call') =>
          /\ program = "agent" => C9_Agent(call'.ev)
          /\ program = "agent_configurable" => C9_Configurable(call'.ev)]_vars

\* an LLMMetrics with ttft = None arrived while EOU and TTS were pending
C9_Witness ==
    /\ program = "agent" /\ IsMetrics(call)
    /\ call.ev.type = "LLMMetrics" /\ call.ev.ttft = None
    /\ simple.current_eou = Num(1000) /\ simple.current_tts = Num(3000)
    /\ simple.current_llm = None
    /\ simple.turn_count = 0 /\ out.simple.log = <<>>

----------------------------------------------------------------------------
(* C10: an event whose payload is present but not a number is dropped:     *)
(* pending slots, history and turn count are the same after the handler    *)
(* as before it.                                                           *)

Malformed(x) == x = StrVal \/ x = ObjVal

C10_MalformedDropped ==
    [][IsMetrics(call') =>
          /\ (program = "agent" /\ call'.ev.type \in Recognized
                /\ Malformed(call'.ev[OwnField(call'.ev.type)])) => simple' = simple
          /\ (program = "agent_configurable"
                /\ \E f \in Fields : Malformed(call'.ev[f])) => conf' = conf]_vars

----------------------------------------------------------------------------
(* C11: an exception raised while the handler classifies an event or       *)
(* extracts and records its payload is caught inside the handler: the      *)
(* handler returns normally for every event.                               *)

----------------------------------------------------------------------------
(* C12: a metrics event whose kind is not end-of-utterance, LLM first      *)
(* token or TTS first byte is ignored, whatever attributes it carries:     *)
(* pending slots, history and turn count stay as they are.                 *)

C12_UnrecognizedIgnored ==
    [][(IsMetrics(call') /\ call'.ev.type \notin Recognized) =>
          simple' = simple /\ conf' = conf]_vars

----------------------------------------------------------------------------
(* C13: producing the summary changes nothing in the tracker: pending      *)
(* slots, the three histories and the turn count are the same after it,    *)
(* whether or not a turn is partly pending.                                *)

C13_SummaryReadOnly ==
    [][call'.op = "print_summary" => simple' = simple /\ conf' = conf]_vars

\* a summary was produced with one completed turn and a turn partly pending
C13_Witness ==
    /\ call.op = "print_summary" /\ program = "agent"
    /\ out.simple.summary.status = "ok"
    /\ Len(simple.eou_delays) = 1
    /\ simple.current_eou # None /\ simple.current_tts = None

----------------------------------------------------------------------------
(* C14: a summary asked for while the history is empty (no completed       *)
(* turn, pending turn empty or partly filled) returns the "no data"        *)
(* result: it does not raise, divide by zero or index an empty list.       *)

C14_Agent ==
    (program = "agent" /\ Len(zip_totals(simple)) = 0) =>
        out.simple.summary.status = "no_turns"

C14_Configurable ==
    (program = "agent_configurable" /\ Len(zip_totals(conf)) = 0) =>
        out.conf.summary.status = "no_turns"

C14_EmptyHistoryNoData ==
    call.op = "print_summary" => C14_Agent /\ C14_Configurable

----------------------------------------------------------------------------
(* C15: with n >= 1 completed turns, each percentile the summary reports   *)
(* (p = 0.50, 0.90, 0.99) is the element at 0-based index                  *)
(* min(floor(n * p), n - 1) of the series sorted ascending; for the totals *)
(* 100, 200, ..., 1000 the mean is 550, P50 is 600 and P90 is 1000.        *)

C15_Index(n, pct) == Min2((n * pct) \div 100, n - 1)

\* v is the element at 0-based index k of `values` sorted ascending
IsOrderStat(values, k, v) ==
    /\ \E i \in DOMAIN values : values[i] = v
    /\ Cardinality({i \in DOMAIN values : values[i] < v}) <= k
    /\ k < Cardinality({i \in DOMAIN values : values[i] <= v})

C15_Stats(values, st) ==
    /\ IsOrderStat(values, C15_Index(Len(values), 50), st.p50)
    /\ IsOrderStat(values, C15_Index(Len(values), 90), st.p90)
    /\ IsOrderStat(values, C15_Index(Len(values), 99), st.p99)

C15_Agent ==
    LET s == out.simple.summary
        totals == zip_totals(simple)
    IN s.status = "ok" =>
          /\ C15_Stats(Ms(simple.eou_delays), s.eou)
          /\ C15_Stats(Ms(simple.llm_ttfts), s.llm)
          /\ C15_Stats(Ms(simple.tts_ttfbs), s.tts)
          /\ C15_Stats(totals, s.total)
          /\ IsOrderStat(totals, C15_Index(Len(totals), 90), s.total_p90)
          /\ IsOrderStat(totals, C15_Index(Len(totals), 99), s.total_p99)
          /\ (sorted(totals) = [i \in 1..10 |-> 100 * i] =>
                 /\ s.total.avg.sum = 550 * s.total.avg.n
                 /\ s.total.p50 = 600 /\ s.total.p90 = 1000)

\* agent_configurable.py reports one percentile, the P90 of the totals
C15_Configurable ==
    LET s == out.conf.summary
        totals == zip_totals(conf)
    IN s.status = "ok" =>
          /\ IsOrderStat(totals, C15_Index(Len(totals), 90), s.p90)
          /\ (sorted(totals) = [i \in 1..10 |-> 100 * i] =>
                 s.avg_total.sum = 550 * s.avg_total.n /\ s.p90 = 1000)

C15_NearestRank ==
    call.op = "print_summary" => C15_Agent /\ C15_Configurable

\* the summary of the ten turns with totals 100 .. 1000
C15_Witness ==
    /\ call.op = "print_summary"
    /\ Len(simple.eou_delays) = 10
    /\ out.simple.summary.total.avg = [sum |-> 5500, n |-> 10]
    /\ out.simple.summary.total.p50 = 600
    /\ out.simple.summary.total.p90 = 1000
    /\ out.conf.summary.p90 = 1000

----------------------------------------------------------------------------
(* C16: with exactly one completed turn, the summary reports for each of   *)
(* the series EOU, LLM, TTS and totals P50 = P90 = P99 = min = max = mean  *)
(* = the turn's value for that series.                                     *)

C16_Stats(v, st) ==
    /\ st.p50 = v /\ st.p90 = v /\ st.p99 = v /\ st.min = v /\ st.max = v
    /\ st.avg.n > 0 /\ st.avg.sum = v * st.avg.n

C16_Mean(v, avg) == avg.n > 0 /\ avg.sum = v * avg.n

C16_Agent ==
    LET s == out.simple.summary
        e == simple.eou_delays[1].v
        l == simple.llm_ttfts[1].v
        t == simple.tts_ttfbs[1].v
    IN /\ s.status = "ok"
       /\ C16_Stats(e, s.eou) /\ C16_Stats(l, s.llm) /\ C16_Stats(t, s.tts)
       /\ C16_Stats(e + l + t, s.total)
       /\ s.total_p90 = e + l + t /\ s.total_p99 = e + l + t

\* agent_configurable.py reports the mean of each series and P90, min and
\* max of the totals
C16_Configurable ==
    LET s == out.conf.summary
        e == conf.eou_delays[1].v
        l == conf.llm_ttfts[1].v
        t == conf.tts_ttfbs[1].v
    IN /\ s.status = "ok"
       /\ C16_Mean(e, s.avg_eou) /\ C16_Mean(l, s.avg_llm) /\ C16_Mean(t, s.avg_tts)
       /\ C16_Mean(e + l + t, s.avg_total)
       /\ s.p90 = e + l + t /\ s.min = e + l + t /\ s.max = e + l + t

C16_SingleTurn ==
    (/\ call.op = "print_summary"
     /\ Len(simple.eou_delays) = 1 /\ Len(simple.llm_ttfts) = 1
     /\ Len(simple.tts_ttfbs) = 1
     /\ Len(conf.eou_delays) = 1 /\ Len(conf.llm_ttfts) = 1
     /\ Len(conf.tts_ttfbs) = 1)
    => C16_Agent /\ C16_Configurable

C16_Witness ==
    /\ call.op = "print_summary"
    /\ Ms(simple.eou_delays) = <<0>> /\ Ms(simple.llm_ttfts) = <<600>>
    /\ Ms(simple.tts_ttfbs) = <<200>>
    /\ out.simple.summary.total.p99 = 800
    /\ out.conf.summary.max = 800

----------------------------------------------------------------------------
(* C17: for a non-empty history the summary yields exactly one verdict,    *)
(* fixed by the P90 of the totals alone: "excellent" below 500 ms, "good"  *)
(* from 500 up to but not including 800 ms, "needs optimization" from 800. *)

C17_Class(p90) ==
    IF p90 < 500 THEN "excellent"
    ELSE IF p90 < 800 THEN "good" ELSE "needs optimization"

C17_P90(totals) ==
    CHOOSE v \in {totals[i] : i \in DOMAIN totals} :
        IsOrderStat(totals, C15_Index(Len(totals), 90), v)

C17_Agent ==
    Len(zip_totals(simple)) > 0 =>
        Verdicts(out.simple.summary) = {C17_Class(C17_P90(zip_totals(simple)))}

C17_Configurable ==
    Len(zip_totals(conf)) > 0 =>
        LatencyTracker_Verdicts(out.conf.summary) =
            {C17_Class(C17_P90(zip_totals(conf)))}

C17_OneVerdictFromP90 ==
    call.op = "print_summary" => C17_Agent /\ C17_Configurable

\* what agent.py's summary alone satisfies
C17_AgentVerdict == call.op = "print_summary" => C17_Agent

----------------------------------------------------------------------------
(* C18: a duration of zero or below is taken as it is: it fills the slot   *)
(* of its kind like any other value, counts toward completion of the       *)
(* pending turn, and enters the history and the total unchanged.           *)

C18_Last(t, k) ==
    LET s == IF k = "eou" THEN t.eou_delays
             ELSE IF k = "llm" THEN t.llm_ttfts ELSE t.tts_ttfbs
    IN s[Len(s)]

C18_On(a, b, log, k, ms) ==
    /\ \E i \in KindLines(log, k) : log[i].ms = ms
    /\ IF \A j \in Kinds \ {k} : Slot(a, j).t = "num"
       THEN /\ GrewBy1(a, b)
            /\ C18_Last(b, k) = Num(ms)
            /\ \A j \in Kinds \ {k} : C18_Last(b, j) = Slot(a, j)
            /\ \E i \in TotalLines(log) :
                  log[i].ms = C18_Last(b, "eou").v + C18_Last(b, "llm").v
                                 + C18_Last(b, "tts").v
       ELSE SameHistory(a, b) /\ Slot(b, k) = Num(ms)

C18_Agent(ev) ==
    \A k \in Kinds :
        (/\ ev.type \in Recognized /\ OwnField(ev.type) = FieldOf(k)
         /\ ev[FieldOf(k)].t = "num" /\ ev[FieldOf(k)].v <= 0)
        => C18_On(simple, simple', out'.simple.log, k, 1000 * ev[FieldOf(k)].v)

C18_Configurable(ev) ==
    \A k \in Kinds :
        (ev[FieldOf(k)].t = "num" /\ ev[FieldOf(k)].v <= 0)
        => C18_On(conf, conf', out'.conf.log, k, 1000 * ev[FieldOf(k)].v)

C18_NonPositiveRecorded ==
    [][IsMetrics(call') =>
          /\ program = "agent" => C18_Agent(call'.ev)
          /\ program = "agent_configurable" => C18_Configurable(call'.ev)]_vars

\* a turn of EOU 0 ms and LLM -1000 ms completed on the zero EOU event
C18_Witness ==
    /\ program = "agent" /\ IsMetrics(call)
    /\ call.ev.type = "EOUMetrics" /\ call.ev.end_of_utterance_delay = Num(0)
    /\ simple.eou_delays = <<Num(0)>> /\ simple.llm_ttfts = <<Num(-1000)>>
    /\ \E i \in TotalLines(out.simple.log) : out.simple.log[i].ms = 2000

----------------------------------------------------------------------------
(* C19: one metrics event causes at most one record call: it writes at     *)
(* most one pending slot, and cannot by itself fill two or three slots or  *)
(* complete a turn out of an empty pending turn.                           *)

C19_On(a, b, log) ==
    /\ Cardinality({k \in Kinds : KindLines(log, k) # {}}) <= 1
    /\ (\A k \in Kinds : Slot(a, k) = None) =>
          /\ SameHistory(a, b) /\ b.turn_count = a.turn_count
          /\ Cardinality({k \in Kinds : Slot(b, k) # None}) <= 1

C19_AgentOneRecord ==
    [][IsMetrics(call') => C19_On(simple, simple', out'.simple.log)]_vars

----------------------------------------------------------------------------
(* C20: a partly filled pending turn stays: a filled slot keeps its value  *)
(* over record calls of the other kinds, ignored events and summaries, and *)
(* changes only when its own kind is recorded again or the turn completes. *)

\* the handler of agent.py calls add_<k> for this event
C20_AgentRecords(ev, k) ==
    /\ ev.type \in Recognized /\ OwnField(ev.type) = FieldOf(k)
    /\ Present(ev[FieldOf(k)])

\* the handler of agent_configurable.py may call add_<k> for this event
C20_ConfigurableRecords(ev, k) == Present(ev[FieldOf(k)])

C20_PendingPersists ==
    [][\A k \in Kinds :
          /\ Slot(simple', k) # Slot(simple, k) =>
                \/ IsMetrics(call') /\ C20_AgentRecords(call'.ev, k)
                \/ GrewBy1(simple, simple')
          /\ Slot(conf', k) # Slot(conf, k) =>
                \/ IsMetrics(call') /\ C20_ConfigurableRecords(call'.ev, k)
                \/ GrewBy1(conf, conf')]_vars

\* EOU and LLM values wait for a TTS value while an event of another type
\* passes through the handler
C20_Witness ==
    /\ program = "agent" /\ IsMetrics(call)
    /\ call.ev.type = "RealtimeModelMetrics" /\ call.ev.ttft = Num(2)
    /\ simple.current_eou = Num(1000) /\ simple.current_llm = Num(-1000)
    /\ simple.current_tts = None /\ Len(simple.eou_delays) = 1

----------------------------------------------------------------------------
(* C21: for a non-empty history every percentile index the summary         *)
(* computes lies inside the sorted series, for every n >= 1, and the       *)
(* statistics reported for a series are ordered                            *)
(* min <= P50 <= P90 <= P99 <= max.                                        *)

MaxSeries == 120

\* int(n * p) for the three percentiles is an index of a list of n elements
C21_InBounds(n) ==
    \A pct \in {50, 90, 99} : 0 <= PctIndex(n, pct) /\ PctIndex(n, pct) < n

C21_Ordered(st) ==
    st.min <= st.p50 /\ st.p50 <= st.p90 /\ st.p90 <= st.p99 /\ st.p99 <= st.max

C21_Agent ==
    LET s == out.simple.summary
    IN Len(zip_totals(simple)) > 0 =>
          /\ s.status = "ok"
          /\ C21_InBounds(Len(zip_totals(simple)))
          /\ C21_Ordered(s.eou) /\ C21_Ordered(s.llm) /\ C21_Ordered(s.tts)
          /\ C21_Ordered(s.total)
          /\ s.total.min <= s.total_p90 /\ s.total_p90 <= s.total_p99
          /\ s.total_p99 <= s.total.max

\* agent_configurable.py reports min, P90 and max of the totals
C21_Configurable ==
    LET s == out.conf.summary
    IN Len(zip_totals(conf)) > 0 =>
          /\ s.status = "ok"
          /\ C21_InBounds(Len(zip_totals(conf)))
          /\ s.min <= s.p90 /\ s.p90 <= s.max

C21_IndexInBoundsAndOrdered ==
    /\ \A n \in 1..MaxSeries : C21_InBounds(n)
    /\ call.op = "print_summary" => C21_Agent /\ C21_Configurable

\* eleven turns: P90 and P99 of the totals are different elements
C21_Witness ==
    /\ call.op = "print_summary"
    /\ Len(simple.eou_delays) = 11
    /\ out.simple.summary.total.min = 100
    /\ out.simple.summary.total.p50 = 600
    /\ out.simple.summary.total.p90 = 1000
    /\ out.simple.summary.total.p99 = 1100
    /\ out.conf.summary.max = 1100

----------------------------------------------------------------------------
(* C22: the summary depends on the completed turns only: trackers with the *)
(* same history series and different pending slots give the same summary,  *)
(* so a turn still pending at shutdown reaches no statistic or verdict.    *)

\* what a pending slot may hold
C22_Pending == {None, StrVal, Num(-1000), Num(0), Num(1000), Num(3000)}

C22_With(t, e, l, s) ==
    [t EXCEPT !.current_eou = e, !.current_llm = l, !.current_tts = s]

----------------------------------------------------------------------------
(* C23: the two trackers are the same state machine: after the same        *)
(* add_eou / add_llm / add_tts calls SimpleLatencyTracker and              *)
(* LatencyTracker hold the same pending slots, history series and turn     *)
(* count, and for a non-empty history they compute the same P90 of the     *)
(* totals (the n > 1 guard and the index clamp pick the same element).     *)

C23_SameState(a, b) ==
    /\ \A k \in Kinds : Slot(a, k) = Slot(b, k)
    /\ Series(a) = Series(b)
    /\ a.turn_count = b.turn_count

\* arguments that are not numbers take both trackers to the same state too
C23_SameOnOthers ==
    \A v \in {StrVal, ObjVal} :
        /\ C23_SameState(add_eou(simple, v).trk, LatencyTracker_add_eou(conf, v).trk)
        /\ C23_SameState(add_llm(simple, v).trk, LatencyTracker_add_llm(conf, v).trk)
        /\ C23_SameState(add_tts(simple, v).trk, LatencyTracker_add_tts(conf, v).trk)

C23_SameP90 ==
    (call.op = "print_summary" /\ Len(zip_totals(simple)) > 0) =>
        /\ out.simple.summary.status = "ok" /\ out.conf.summary.status = "ok"
        /\ out.simple.summary.total_p90 = out.conf.summary.p90

C23_TrackersEquivalent ==
    C23_SameState(simple, conf) /\ C23_SameOnOthers /\ C23_SameP90

\* two turns with different totals were completed by the same calls on both
\* trackers and summarised
C23_Witness ==
    /\ call.op = "print_summary"
    /\ Len(simple.eou_delays) = 2 /\ Len(conf.eou_delays) = 2
    /\ zip_totals(simple)[1] > zip_totals(simple)[2]
    /\ out.simple.summary.total_p90 = zip_totals(simple)[1]
    /\ out.conf.summary.p90 = zip_totals(conf)[1]

====
